---------------------------- MODULE Spec2Model ----------------------------
(***************************************************************************)
(* Local UniFi Drive: the content script (content/content.js) that places  *)
(* one icon next to the Protect anchor of the UniFi header and keeps it    *)
(* there, and the options page that stores the link.                       *)
(*                                                                         *)
(* The document is a tree of elements.  Strings are sequences of tokens,   *)
(* <<>> being the empty string (falsy in JavaScript, like undefined).      *)
(* Time is counted in milliseconds.                                        *)
(***************************************************************************)
EXTENDS Integers, Sequences, FiniteSets, TLC

\* ------------------------------------------------------------------ bounds
\* how many events the host page and the user produce in one run: DOM edits,
\* navigations, debug-bridge requests, saves of the options page
MaxEvents == 2
\* longest text typed into the options page's link field, in tokens
MaxLen == 2

\* ------------------------------------------------------- program constants
DEBOUNCE_MS == 500
COOLDOWN_MS == 1000
POLL_MS == 500
NAV_DELAY_MS == 50
ONE_SHOT_MS == 5000
DEFAULT_DELAY == 5
\* the largest step by which the clock advances between two events
STEP_MS == DEBOUNCE_MS

DEFAULT_LINK == <<"https://example.com">>

\* ------------------------------------------------------------- the document
None == "none"
HTML == "html"
BODY == "body"
\* the element matching div.unifi-portal-1vz64y0.evzy7n80
SC == "sc"
\* two plain wrapper elements of the host page
DIV1 == "div1"
DIV2 == "div2"
\* a[data-testid="applink-network"] and a[data-testid="applink-protect"]
NET == "net"
PROT == "prot"

HostElems == {BODY, SC, DIV1, DIV2, NET, PROT}
\* elements carrying id="local-unifi-drive-icon"; a new node per createIcon
IconPool == <<"i1", "i2", "i3">>
Icons == {IconPool[k] : k \in 1..Len(IconPool)}
Nodes == {HTML} \cup HostElems \cup Icons

\* where the host page may put each of its elements
HostParents(e) ==
  CASE e = BODY -> {HTML}
    [] e = SC   -> {BODY}
    [] e = DIV1 -> {BODY, SC}
    [] e = DIV2 -> {BODY, SC, DIV1}
    [] e = NET  -> {BODY, SC, DIV1, DIV2}
    [] e = PROT -> {BODY, SC, DIV1, DIV2}
    [] OTHER    -> {}

\* the order the host page keeps among sibling elements of its own
Rank(e) ==
  CASE e = BODY -> 1
    [] e = SC   -> 2
    [] e = NET  -> 3
    [] e = DIV2 -> 4
    [] e = PROT -> 5
    [] e = DIV1 -> 6
    [] OTHER    -> 0

Range(s) == {s[k] : k \in 1..Len(s)}

IndexOf(s, x) == IF x \in Range(s) THEN CHOOSE k \in 1..Len(s) : s[k] = x ELSE 0

Without(s, x) == SelectSeq(s, LAMBDA y : y # x)

\* s with x put in front of its k-th element (k = Len(s) + 1 appends)
InsertAt(s, k, x) == SubSeq(s, 1, k - 1) \o <<x>> \o SubSeq(s, k, Len(s))

EmptyDoc == [n \in Nodes |-> <<>>]

parentNode(d, n) ==
  IF \E p \in Nodes : n \in Range(d[p])
  THEN CHOOSE p \in Nodes : n \in Range(d[p])
  ELSE None

RECURSIVE Subtree(_, _)
\* n and its descendants
Subtree(d, n) == {n} \cup UNION {Subtree(d, c) : c \in Range(d[n])}

\* Node.contains: a is b or an ancestor of b
contains(d, a, b) == a # None /\ b # None /\ b \in Subtree(d, a)

InDoc(d, n) == n \in Subtree(d, HTML)

RECURSIVE Preorder(_, _)
RECURSIVE PreorderAll(_, _)
\* the nodes below and including n, in document order
Preorder(d, n) == <<n>> \o PreorderAll(d, d[n])
PreorderAll(d, s) ==
  IF s = <<>> THEN <<>> ELSE Preorder(d, Head(s)) \o PreorderAll(d, Tail(s))

\* the first element in document order, strictly below root, that is in set S
querySelector(d, root, S) ==
  LET hits == SelectSeq(Tail(Preorder(d, root)), LAMBDA n : n \in S)
  IN IF hits = <<>> THEN None ELSE Head(hits)

getElementById(d) == querySelector(d, HTML, Icons)

body(d) == IF BODY \in Range(d[HTML]) THEN BODY ELSE None

nextSibling(d, n) ==
  LET p == parentNode(d, n)
  IN IF p = None THEN None
     ELSE LET k == IndexOf(d[p], n)
          IN IF k < Len(d[p]) THEN d[p][k + 1] ELSE None

IconsInDoc(d) == {i \in Icons : InDoc(d, i)}

\* ------------------------------------------------- DOM editing primitives
\* An editing machine: the document, the parents whose child list changed
\* (what a MutationObserver with childList would be told), and whether the
\* last call raised.
Machine(d) == [doc |-> d, touched |-> {}, threw |-> FALSE]

Raise(m) == [m EXCEPT !.threw = TRUE]

Detach(d, n) ==
  LET p == parentNode(d, n)
  IN IF p = None THEN d ELSE [d EXCEPT ![p] = Without(@, n)]

\* parent.removeChild(n)
removeChild(m, n) ==
  LET p == parentNode(m.doc, n)
  IN IF p = None THEN m
     ELSE [m EXCEPT !.doc = Detach(m.doc, n), !.touched = @ \cup {p}]

\* parent.insertBefore(n, ref); ref = None appends.  Raises when the parent
\* is null, when n contains the parent, or when ref is not a child of it.
insertBefore(m, parent, n, ref) ==
  IF parent = None \/ contains(m.doc, n, parent) \/
     (ref # None /\ parentNode(m.doc, ref) # parent)
  THEN Raise(m)
  ELSE LET r    == IF ref = n THEN nextSibling(m.doc, n) ELSE ref
           old  == parentNode(m.doc, n)
           d1   == Detach(m.doc, n)
           k    == IF r = None THEN Len(d1[parent]) + 1 ELSE IndexOf(d1[parent], r)
       IN [doc     |-> [d1 EXCEPT ![parent] = InsertAt(@, k, n)],
           touched |-> m.touched \cup {parent} \cup (IF old = None THEN {} ELSE {old}),
           threw   |-> FALSE]

appendChild(m, parent, n) == insertBefore(m, parent, n, None)

\* a removeIcon that leaves the element where it is
removeIcon_skip(m) == m

\* removeIcon: drop the element getElementById finds
removeIcon(m) ==
  LET el == getElementById(m.doc)
  IN IF el # None /\ parentNode(m.doc, el) # None THEN removeChild(m, el) ELSE m


\* ------------------------------------------------------------ the placer
RECURSIVE Climb(_, _, _)
\* while (anc && !anc.contains(p)) anc = anc.parentElement
Climb(d, anc, p) ==
  IF anc = None \/ contains(d, anc, p) THEN anc ELSE Climb(d, parentNode(d, anc), p)

\* a container resolution without the common-ancestor heuristic
resolveContainer_body(d) ==
  IF querySelector(d, HTML, {SC}) # None THEN querySelector(d, HTML, {SC}) ELSE body(d)

\* the container createIcon works in: the explicit one, else the lowest
\* common ancestor of the two anchors, else document.body (None when the
\* document has no body)
resolveContainer(d) ==
  LET sc == querySelector(d, HTML, {SC})
      n  == querySelector(d, HTML, {NET})
      p  == querySelector(d, HTML, {PROT})
  IN IF sc # None THEN sc
     ELSE IF n = None \/ p = None THEN body(d)
     ELSE LET anc == Climb(d, parentNode(d, n), p)
          IN IF anc # None THEN anc ELSE body(d)

\* the first child of containerEl that contains the anchor
findDirectChildContaining(d, anchor, containerEl) ==
  IF anchor = None \/ containerEl = None THEN None
  ELSE LET hits == SelectSeq(d[containerEl], LAMBDA c : contains(d, c, anchor))
       IN IF hits = <<>> THEN None ELSE Head(hits)

\* a.parentElement || b
parentOr(d, a, b) == IF parentNode(d, a) # None THEN parentNode(d, a) ELSE b

\* topChild.insertAdjacentElement('afterend', w): nothing when topChild has
\* no parent
insertAdjacentAfter(m, topChild, w) ==
  IF parentNode(m.doc, topChild) = None THEN m
  ELSE insertBefore(m, parentNode(m.doc, topChild), w, nextSibling(m.doc, topChild))

\* a || b on nodes
OrNode(a, b) == IF a # None THEN a ELSE b

\* try { a } catch { b }: no attempt that raised has changed the document
OrElse(a, b) == IF ~a.threw THEN a ELSE b

\* try { ... } catch (e) {}
Swallow(m, r) == IF r.threw THEN m ELSE r

\* container.children[idx + 1] || null
childAfter(d, container, idx) ==
  IF idx < Len(d[container]) THEN d[container][idx + 1] ELSE None

\* if (idx >= 0) container.insertBefore(w, next)
\* else (topChild.parentElement || container).insertBefore(w, topChild.nextSibling)
insertAtIndex(m, w, topChild, container, idx) ==
  IF idx > 0
  THEN insertBefore(m, container, w, childAfter(m.doc, container, idx))
  ELSE insertBefore(m, parentOr(m.doc, topChild, container), w,
                    nextSibling(m.doc, topChild))

\* put w after topChild, located among the container's children
insertAtTopChild(m, w, topChild, container) ==
  insertAtIndex(m, w, topChild, container, IndexOf(m.doc[container], topChild))

\* put w after topChild, with the two further attempts of the catch blocks
insertAfterTop(m, w, topChild, container) ==
  OrElse(insertAtTopChild(m, w, topChild, container),
         OrElse(insertAdjacentAfter(m, topChild, w),
                insertBefore(m, parentOr(m.doc, topChild, container), w,
                             nextSibling(m.doc, topChild))))

\* put w after the direct child of the container that holds the anchor
insertAfterTopChild(m, w, anchor, container) ==
  insertAfterTop(m, w,
                 OrNode(findDirectChildContaining(m.doc, anchor, container), anchor),
                 container)

\* an insertion at the end of the anchor's parent
placeAfterAnchor_append(m, w, anchor) ==
  appendChild(m, parentNode(m.doc, anchor), w)

\* parent.insertBefore(wrapper, protectAnchor.nextSibling)
placeAfterAnchor(m, w, anchor) ==
  insertBefore(m, parentNode(m.doc, anchor), w, nextSibling(m.doc, anchor))

\* a repair that takes the icon out of the document and does not put it back
repairExisting_detach(m) ==
  IF getElementById(m.doc) = None \/ querySelector(m.doc, HTML, {SC}) = None THEN m
  ELSE removeIcon(m)

\* a repair that only appends the icon to the container
repairExisting_append(m) ==
  LET existing == getElementById(m.doc)
      sc       == querySelector(m.doc, HTML, {SC})
  IN IF existing = None \/ sc = None THEN m
     ELSE [appendChild(m, sc, existing) EXCEPT !.threw = FALSE]

\* the move repairExisting makes once it has the icon, the container and
\* the container's Protect anchor
repairMove(m, existing, sc, protectAnchor) ==
  IF protectAnchor # None /\ parentNode(m.doc, protectAnchor) # None
  THEN OrElse(placeAfterAnchor(m, existing, protectAnchor),
              OrElse(insertAtTopChild(m, existing,
                                      OrNode(findDirectChildContaining(m.doc, protectAnchor, sc),
                                             protectAnchor),
                                      sc),
                     appendChild(m, sc, existing)))
  ELSE appendChild(m, sc, existing)

repairFound(m, existing, sc) ==
  IF existing = None \/ sc = None THEN m
  ELSE Swallow(m, repairMove(m, existing, sc, querySelector(m.doc, sc, {PROT})))

\* repairExisting: move the existing icon next to the Protect anchor of the
\* explicit container, or to the end of that container; never raises
repairExisting(m) ==
  repairFound(m, getElementById(m.doc), querySelector(m.doc, HTML, {SC}))

\* the wrapper element a createIcon call builds: a node not in the document
NewIcon(d) ==
  IconPool[CHOOSE k \in 1..Len(IconPool) :
             ~InDoc(d, IconPool[k]) /\ \A j \in 1..(k - 1) : InDoc(d, IconPool[j])]

Result(m, ran, path, w) ==
  [doc |-> m.doc, touched |-> m.touched, threw |-> m.threw, ran |-> ran,
   path |-> path, wrapper |-> w]

\* the catch of the outer try: document.body.appendChild(wrapper), itself
\* in a try that swallows everything
lastResort(m, w) == Swallow(m, appendChild(m, body(m.doc), w))

\* return after an insertion that did not raise, else go on
Returned(m, path, w, otherwise) ==
  IF ~m.threw THEN Result(m, TRUE, path, w) ELSE otherwise

\* the append fallback with the final repairExisting
createIconAppend(m0, w, appended) ==
  IF ~appended.threw
  THEN Result(repairExisting(appended), TRUE, "append", w)
  ELSE Result(lastResort(m0, w), TRUE, "last-resort", w)

\* the try block of createIcon
createIconAt(m0, w, container, protectAnchor, networkAnchor) ==
  IF protectAnchor # None
  THEN Returned(placeAfterAnchor(m0, w, protectAnchor), "protect", w,
         Returned(insertAfterTopChild(m0, w, protectAnchor, container),
                  "protect-fallback", w,
                  Result(lastResort(m0, w), TRUE, "last-resort", w)))
  ELSE IF networkAnchor # None
  THEN Returned(insertAfterTopChild(m0, w, networkAnchor, container), "network", w,
                Result(lastResort(m0, w), TRUE, "last-resort", w))
  ELSE createIconAppend(m0, w, appendChild(m0, container, w))

\* container.querySelector raises outside the try block when there is no
\* container
createIconIn(m0, w, container) ==
  IF container = None
  THEN Result(Raise(m0), TRUE, "raised", w)
  ELSE createIconAt(m0, w, container, querySelector(m0.doc, container, {PROT}),
                    querySelector(m0.doc, container, {NET}))

\* a createIcon without the debounce test
createIcon_always(d, age) ==
  createIconIn(removeIcon(Machine(d)), NewIcon(d),
               resolveContainer(removeIcon(Machine(d)).doc))

\* createIcon on document d when `age` ms have passed since the last call
\* that was not debounced.  `wrapper` is the element built; `path` names the
\* branch that returned; `threw` says the call raised to its caller.
createIcon(d, age) ==
  IF age < DEBOUNCE_MS
  THEN Result(Machine(d), FALSE, "debounced", None)
  ELSE createIconIn(removeIcon(Machine(d)), NewIcon(d),
                    resolveContainer(removeIcon(Machine(d)).doc))

\* ------------------------------------------------------------------- state
\* a stored delayedCreate that was never written
Unset == -1

VARIABLES
  doc,               \* the document: each node's list of children
  iconLink,          \* the `link` argument each icon's click handler closed over
  sinceLast,         \* ms since createIcon._last, capped at COOLDOWN_MS (also: never set)
  _currentDriveLink, \* the module-level let _currentDriveLink
  storage,           \* chrome.storage.sync: [driveLink, delayedCreate]
  storageAvail,      \* whether chrome.storage.sync exists for the content script
  pendingGets,       \* chrome.storage.sync.get calls whose callback has not run
  pendingChanges,    \* storage.onChanged notifications not yet delivered
  timers,            \* pending setTimeout / setInterval entries [kind, link, rem]
  observed,          \* the node the MutationObserver watches
  mutPending,        \* a MutationObserver callback is queued
  started,           \* start() has run
  opened,            \* the target of the last window.open
  events,            \* events the host page and the user may still produce
  hist,              \* the last placer call of the placement model
  optInput,          \* the text in the options page's link field
  savedText          \* the text that field held at the last click on Save

vars == <<doc, iconLink, sinceLast, _currentDriveLink, storage, storageAvail,
          pendingGets, pendingChanges, timers, observed, mutPending, started,
          opened, events, hist, optInput, savedText>>

\* the observer's target once the host page has removed it from the document
Gone == "gone"

\* the links a user stores, besides none
Links == {<<"a">>, <<"b">>}

\* the link the placement model passes to createIcon
PlaceLinks == {<<"a">>}

\* no click on Save yet
NoSave == <<"(never saved)">>

NoHist == [op |-> "none", ran |-> FALSE, threw |-> FALSE, path |-> "none",
           icon |-> None, parent |-> None]

Min(a, b) == IF a < b THEN a ELSE b

\* closures of nodes that left the document are of no account
Canon(il, d) == [i \in Icons |-> IF InDoc(d, i) THEN il[i] ELSE <<>>]

NoLinks == [i \in Icons |-> <<>>]

\* whether a queued mutation record reaches the observer: the parent whose
\* child list changed lies in the observed subtree
Observes(d, touched) ==
  observed \notin {None, Gone} /\ \E p \in touched : p \in Subtree(d, observed)

\* document.getElementById(ICON_ID) now
TheIcon == getElementById(doc)

\* The state a handler works on: the document, the icons' closures, the
\* debounce clock and the parents whose child lists it changed.
Prog == [doc |-> doc, iconLink |-> iconLink, sinceLast |-> sinceLast, touched |-> {}]

\* the state after a createIcon(link) call with outcome r, whose exception,
\* if any, the caller swallows
called(ps, link, r) ==
  IF ~r.ran THEN ps
  ELSE [doc       |-> r.doc,
        iconLink  |-> Canon([ps.iconLink EXCEPT ![r.wrapper] = link], r.doc),
        sinceLast |-> 0,
        touched   |-> ps.touched \cup r.touched]

callCreateIcon(ps, link) == called(ps, link, createIcon(ps.doc, ps.sinceLast))

\* the state after DOM edits m
edited(ps, m) ==
  [ps EXCEPT !.doc = m.doc, !.iconLink = Canon(ps.iconLink, m.doc),
             !.touched = @ \cup m.touched]

callRemoveIcon(ps) == edited(ps, removeIcon(Machine(ps.doc)))

callRepairExisting(ps) == edited(ps, repairExisting(Machine(ps.doc)))

\* write a handler's result back; its own DOM edits queue the observer
Commit(ps) ==
  /\ doc' = ps.doc
  /\ iconLink' = ps.iconLink
  /\ sinceLast' = ps.sinceLast
  /\ mutPending' = (mutPending \/ Observes(ps.doc, ps.touched))

\* the same for the observer's own callback, which consumed the queued records
CommitObserver(ps) ==
  /\ doc' = ps.doc
  /\ iconLink' = ps.iconLink
  /\ sinceLast' = ps.sinceLast
  /\ mutPending' = Observes(ps.doc, ps.touched)

\* the pool of node identities always has a spare one for a new wrapper
CanCreate == \E i \in Icons : ~InDoc(doc, i)

\* ------------------------------------------------------------ the host page
HostSorted(s) ==
  \A j, k \in 1..Len(s) :
    (j < k /\ s[j] \in HostElems /\ s[k] \in HostElems) => Rank(s[j]) < Rank(s[k])

\* the host page inserts element e under p in front of p's k-th child
HostInsertDoc(e, p, k) ==
  /\ ~InDoc(doc, e)
  /\ InDoc(doc, p)
  /\ HostSorted(InsertAt(doc[p], k, e))
  /\ doc' = [doc EXCEPT ![p] = InsertAt(@, k, e)]
  /\ iconLink' = iconLink
  /\ mutPending' = (mutPending \/ Observes(doc, {p}))
  /\ observed' = observed

\* the host page removes node n with everything below it
HostRemoveDoc(n) ==
  /\ InDoc(doc, n)
  /\ LET gone == Subtree(doc, n)
         d1   == [x \in Nodes |-> IF x \in gone THEN <<>> ELSE Without(doc[x], n)]
     IN /\ doc' = d1
        /\ iconLink' = Canon(iconLink, d1)
        /\ mutPending' = (mutPending \/ Observes(doc, {parentNode(doc, n)} \ gone))
        /\ observed' = IF observed \in gone THEN Gone ELSE observed

\* time passes: to the next timer that is due, at most STEP_MS; queued
\* callbacks run first
Tick ==
  /\ ~mutPending
  /\ pendingGets = 0
  /\ pendingChanges = <<>>
  /\ \A t \in timers : t.rem > 0
  /\ LET delta == IF timers = {} THEN STEP_MS
                  ELSE Min(STEP_MS, CHOOSE r \in {t.rem : t \in timers} :
                                      \A t \in timers : r <= t.rem)
     IN /\ sinceLast' = Min(sinceLast + delta, COOLDOWN_MS)
        /\ timers' = {[t EXCEPT !.rem = @ - delta] : t \in timers}
  /\ UNCHANGED <<doc, iconLink, _currentDriveLink, storage, storageAvail,
                 pendingGets, pendingChanges, observed, mutPending, started,
                 opened, events, hist, optInput, savedText>>

\* ------------------------------------------------- the placement model
\* The placer's functions applied to every document the host page can build.
Idle == <<_currentDriveLink, storage, storageAvail, pendingGets, pendingChanges,
          timers, started, opened, events, optInput, savedText>>

InitPlace ==
  /\ doc = EmptyDoc
  /\ iconLink = NoLinks
  /\ sinceLast = COOLDOWN_MS
  /\ _currentDriveLink = DEFAULT_LINK
  /\ storage = [driveLink |-> <<>>, delayedCreate |-> Unset]
  /\ storageAvail = FALSE
  /\ pendingGets = 0
  /\ pendingChanges = <<>>
  /\ timers = {}
  /\ observed = None
  /\ mutPending = FALSE
  /\ started = FALSE
  /\ opened = <<>>
  /\ events = 0
  /\ hist = NoHist
  /\ optInput = <<>>
  /\ savedText = NoSave

PlaceCreate(link) ==
  /\ CanCreate
  /\ \E r \in {createIcon(doc, sinceLast)} :
       /\ Commit(called(Prog, link, r))
       /\ hist' = [op |-> "create", ran |-> r.ran, threw |-> r.threw, path |-> r.path,
                   icon |-> None, parent |-> None]
  /\ UNCHANGED <<observed>>
  /\ UNCHANGED Idle

PlaceRepair ==
  /\ Commit(callRepairExisting(Prog))
  /\ hist' = [op |-> "repair", ran |-> TRUE, threw |-> FALSE, path |-> "repair",
              icon |-> getElementById(doc), parent |-> parentNode(doc, getElementById(doc))]
  /\ UNCHANGED <<observed>>
  /\ UNCHANGED Idle

PlaceRemove ==
  /\ Commit(callRemoveIcon(Prog))
  /\ hist' = [op |-> "remove", ran |-> TRUE, threw |-> FALSE, path |-> "remove",
              icon |-> None, parent |-> None]
  /\ UNCHANGED <<observed>>
  /\ UNCHANGED Idle

PlaceHostInsert ==
  /\ \E e \in HostElems : \E p \in HostParents(e) : \E k \in 1..(Len(doc[p]) + 1) :
       HostInsertDoc(e, p, k)
  /\ hist' = [NoHist EXCEPT !.op = "host"]
  /\ UNCHANGED <<sinceLast>>
  /\ UNCHANGED Idle

PlaceHostRemove ==
  /\ \E n \in HostElems \cup Icons : HostRemoveDoc(n)
  /\ hist' = [NoHist EXCEPT !.op = "host"]
  /\ UNCHANGED <<sinceLast>>
  /\ UNCHANGED Idle

NextPlace ==
  \/ \E link \in PlaceLinks : PlaceCreate(link)
  \/ PlaceRepair
  \/ PlaceRemove
  \/ PlaceHostInsert
  \/ PlaceHostRemove
  \/ Tick

SpecPlace == InitPlace /\ [][NextPlace]_vars

\* ------------------------------------------- claims on the placement model
\* where the icon sits: its parent and its index among the parent's children
IconPos(d) ==
  LET i == getElementById(d)
  IN IF i = None THEN <<None, 0>> ELSE <<parentNode(d, i), IndexOf(d[parentNode(d, i)], i)>>

\* the last placer call was a createIcon that passed the debounce
Created == hist.op = "create" /\ hist.ran

\* the preferred / secondary anchor createIcon finds in its container
AnchorIn(d, a) ==
  IF resolveContainer(d) = None THEN None ELSE querySelector(d, resolveContainer(d), {a})

\* C5: two createIcon calls in succession, both past the debounce and with no
\* change of the host DOM in between, leave exactly one icon node in the
\* document, at the position the first call produced.
C5_PlacementIdempotence ==
  [][(Created /\ (\E link \in PlaceLinks : PlaceCreate(link)) /\ hist'.ran)
       => (Cardinality(IconsInDoc(doc')) = 1 /\ IconPos(doc') = IconPos(doc))]_vars

\* C6: when the preferred anchor is a descendant of the resolved container,
\* after a createIcon that passed the debounce the icon is the next sibling
\* of that anchor or, when the insertion next to the anchor failed, the next
\* sibling of the container's direct child that contains the anchor.
C6_Adjacency ==
  (Created /\ AnchorIn(doc, PROT) # None) =>
    /\ TheIcon # None
    /\ \/ hist.path = "protect" /\ nextSibling(doc, PROT) = TheIcon
       \/ /\ hist.path = "protect-fallback"
          /\ nextSibling(doc, findDirectChildContaining(doc, PROT, resolveContainer(doc)))
               = TheIcon

\* C6 witness: the anchor is nested in a cell of the explicit container and
\* the new icon sits right after it
C6_Witness ==
  /\ Created
  /\ parentNode(doc, PROT) = DIV2
  /\ parentNode(doc, DIV2) = SC
  /\ nextSibling(doc, PROT) = TheIcon
  /\ TheIcon # None

\* C7: a createIcon that passed the debounce puts the icon right after the
\* container's direct child holding the secondary anchor when the container
\* has no preferred anchor; with neither anchor in the document it leaves
\* the icon a child of the container (of document.body without one) and
\* does not raise.
C7_FallbackOrdering ==
  Created =>
    /\ (AnchorIn(doc, PROT) = None /\ AnchorIn(doc, NET) # None) =>
         /\ TheIcon # None
         /\ nextSibling(doc, findDirectChildContaining(doc, NET, resolveContainer(doc)))
              = TheIcon
    /\ (~InDoc(doc, PROT) /\ ~InDoc(doc, NET)) =>
         /\ ~hist.threw
         /\ TheIcon # None
         /\ parentNode(doc, TheIcon) = (IF InDoc(doc, SC) THEN SC ELSE BODY)

\* C8: a createIcon call never raises to its caller, and when it passed the
\* debounce the icon is in the document afterwards.
C8_NeverThrows ==
  hist.op = "create" => (~hist.threw /\ (hist.ran => TheIcon # None))

\* C9: when the icon hangs off document.body and the explicit container holds
\* the preferred anchor, one repairExisting call leaves the same icon node
\* inside the container as the next sibling of the anchor.
C9_RepairConvergence ==
  (hist.op = "repair" /\ hist.icon # None /\ hist.parent = BODY /\ contains(doc, SC, PROT)
     /\ InDoc(doc, SC)) =>
    /\ IconsInDoc(doc) = {hist.icon}
    /\ contains(doc, SC, hist.icon)
    /\ nextSibling(doc, PROT) = hist.icon

\* C9 witness: the icon was moved from the body to a nested anchor's side
C9_Witness ==
  /\ hist.op = "repair"
  /\ hist.parent = BODY
  /\ hist.icon # None
  /\ parentNode(doc, PROT) = DIV2
  /\ contains(doc, SC, DIV2)
  /\ InDoc(doc, SC)
  /\ nextSibling(doc, PROT) = hist.icon

\* ------------------------------------------------------ the content script
\* a || b on strings
Or(a, b) == IF a # <<>> THEN a ELSE b

\* a pending setTimeout / setInterval: its callback, the link the callback
\* closed over, the time left, and its place among the one-shot timers that
\* fall due at the same instant
Timer(kind, link, rem) == [kind |-> kind, link |-> link, rem |-> rem, ord |-> 0]

\* setTimeout / setInterval: timers with the same deadline run in the order
\* they were set (the interval's ticks drift, so they take no place in it)
Schedule(ts, new) ==
  IF new = {} THEN ts
  ELSE LET t == CHOOSE u \in new : TRUE
       IN ts \cup {[t EXCEPT !.ord = IF t.kind = "poll" THEN 0
                                     ELSE Cardinality({u \in ts : u.kind # "poll"
                                                                   /\ u.rem = t.rem})]}

\* timer t is the next to run
Due(ts, t) ==
  /\ t.rem = 0
  /\ t.kind # "poll" => \A u \in ts : (u.kind # "poll" /\ u.rem = 0) => t.ord <= u.ord

\* items.delayedCreate as chrome.storage.sync.get({delayedCreate: 5}) gives it
StoredDelay == IF storage.delayedCreate = Unset THEN DEFAULT_DELAY ELSE storage.delayedCreate

\* try { createIcon(link || DEFAULT_LINK); } catch (e) { createIcon(DEFAULT_LINK); }
applyCreate(ps, link, r) ==
  IF r.threw THEN callCreateIcon(called(ps, link, r), DEFAULT_LINK)
  ELSE called(ps, link, r)

\* apply(link, delayedSeconds) of loadAndCreate: place, retry with the
\* default when that raised, and schedule the delayed create
apply(ps, link, delayedSeconds) ==
  [ps     |-> applyCreate(ps, Or(link, DEFAULT_LINK), createIcon(ps.doc, ps.sinceLast)),
   timers |-> IF delayedSeconds > 0
              THEN {Timer("delayed", Or(link, DEFAULT_LINK), delayedSeconds * 1000)}
              ELSE {}]

\* the store does not exist: apply(DEFAULT_LINK, 5) at once
applied(a) == [ps |-> a.ps, timers |-> a.timers, gets |-> 0, current |-> DEFAULT_LINK]

\* loadAndCreate: asks the store, or applies the defaults at once when the
\* store does not exist
loadAndCreate(ps) ==
  IF storageAvail
  THEN [ps |-> ps, timers |-> {}, gets |-> 1, current |-> _currentDriveLink]
  ELSE applied(apply(ps, DEFAULT_LINK, DEFAULT_DELAY))

\* createIcon(); return true;
checked(ps, r) == [ps |-> called(ps, <<>>, r), done |-> ~r.threw]

\* checkAndCreate of the persistent watcher
checkAndCreate(ps) ==
  IF querySelector(ps.doc, HTML, {PROT}) # None /\ getElementById(ps.doc) = None
  THEN checked(ps, createIcon(ps.doc, ps.sinceLast))
  ELSE [ps |-> ps, done |-> FALSE]

\* what the click handler of icon i passes to window.open
ClickTarget(i) == Or(iconLink[i], Or(_currentDriveLink, DEFAULT_LINK))

\* start(): repair, load and place, install the watcher (immediate check,
\* poll, navigation hooks), the observer and the one-shot timer
Start ==
  /\ ~started
  /\ CanCreate
  /\ \E ld \in {loadAndCreate(callRepairExisting(Prog))} :
     \E chk \in {checkAndCreate(ld.ps)} :
     \E sc \in {querySelector(chk.ps.doc, HTML, {SC})} :
       /\ doc' = chk.ps.doc
       /\ iconLink' = chk.ps.iconLink
       /\ sinceLast' = chk.ps.sinceLast
       /\ mutPending' = FALSE
       /\ observed' = IF sc # None THEN sc ELSE HTML
       /\ pendingGets' = pendingGets + ld.gets
       /\ _currentDriveLink' = ld.current
       /\ timers' = Schedule(Schedule(Schedule(timers, ld.timers),
                                      {Timer("poll", <<>>, POLL_MS)}),
                             {Timer("oneshot", <<>>, ONE_SHOT_MS)})
  /\ started' = TRUE
  /\ UNCHANGED <<storage, storageAvail, pendingChanges, opened, events, hist, optInput,
                 savedText>>

Rest == <<_currentDriveLink, storage, storageAvail, pendingGets, pendingChanges,
          observed, started, opened, events, hist, optInput, savedText>>

\* the callback of chrome.storage.sync.get in loadAndCreate
GetCallback ==
  /\ pendingGets > 0
  /\ ~mutPending
  /\ CanCreate
  /\ \E a \in {apply(Prog, Or(storage.driveLink, DEFAULT_LINK), StoredDelay)} :
       /\ Commit(a.ps)
       /\ timers' = Schedule(timers, a.timers)
  /\ _currentDriveLink' = Or(storage.driveLink, DEFAULT_LINK)
  /\ pendingGets' = pendingGets - 1
  /\ UNCHANGED <<storage, storageAvail, pendingChanges, observed, started, opened,
                 events, hist, optInput, savedText>>

\* an observer callback that starts a load on every mutation record
ObserverCallback_unguarded ==
  /\ mutPending
  /\ CanCreate
  /\ \E ld \in {loadAndCreate(Prog)} :
       /\ CommitObserver(ld.ps)
       /\ timers' = Schedule(timers, ld.timers)
       /\ pendingGets' = pendingGets + ld.gets
       /\ _currentDriveLink' = ld.current
  /\ UNCHANGED <<storage, storageAvail, pendingChanges, observed, started, opened,
                 events, hist, optInput, savedText>>

\* an observer callback without the cooldown test
ObserverCallback_eager ==
  /\ mutPending
  /\ CanCreate
  /\ IF TheIcon = None \/ ~contains(doc, BODY, TheIcon)
     THEN \E ld \in {loadAndCreate(Prog)} :
            /\ CommitObserver(ld.ps)
            /\ timers' = Schedule(timers, ld.timers)
            /\ pendingGets' = pendingGets + ld.gets
            /\ _currentDriveLink' = ld.current
     ELSE /\ mutPending' = FALSE
          /\ UNCHANGED <<doc, iconLink, sinceLast, timers, pendingGets, _currentDriveLink>>
  /\ UNCHANGED <<storage, storageAvail, pendingChanges, observed, started, opened,
                 events, hist, optInput, savedText>>

\* the MutationObserver callback of ensureObserver
ObserverCallback ==
  /\ mutPending
  /\ CanCreate
  /\ IF (TheIcon = None \/ ~contains(doc, BODY, TheIcon)) /\ ~(sinceLast < COOLDOWN_MS)
     THEN \E ld \in {loadAndCreate(Prog)} :
            /\ CommitObserver(ld.ps)
            /\ timers' = Schedule(timers, ld.timers)
            /\ pendingGets' = pendingGets + ld.gets
            /\ _currentDriveLink' = ld.current
     ELSE /\ mutPending' = FALSE
          /\ UNCHANGED <<doc, iconLink, sinceLast, timers, pendingGets, _currentDriveLink>>
  /\ UNCHANGED <<storage, storageAvail, pendingChanges, observed, started, opened,
                 events, hist, optInput, savedText>>

\* a tick of the watcher's setInterval: clears itself once checkAndCreate
\* says it created the icon
PollFire ==
  /\ ~mutPending
  /\ CanCreate
  /\ \E t \in timers :
       /\ t.kind = "poll" /\ Due(timers, t)
       /\ \E chk \in {checkAndCreate(Prog)} :
            /\ Commit(chk.ps)
            /\ timers' = Schedule(timers \ {t},
                                  IF chk.done THEN {} ELSE {Timer("poll", <<>>, POLL_MS)})
  /\ UNCHANGED Rest

\* a one-shot timer that places the icon only when there is none
OneShotFire_guarded ==
  /\ ~mutPending
  /\ CanCreate
  /\ \E t \in timers :
       /\ t.kind = "oneshot" /\ Due(timers, t)
       /\ Commit(IF getElementById(doc) = None THEN callCreateIcon(Prog, <<>>) ELSE Prog)
       /\ timers' = timers \ {t}
  /\ UNCHANGED Rest

\* the one-shot timer of start(): createIcon() without a link
OneShotFire ==
  /\ ~mutPending
  /\ CanCreate
  /\ \E t \in timers :
       /\ t.kind = "oneshot" /\ Due(timers, t)
       /\ Commit(callCreateIcon(Prog, <<>>))
       /\ timers' = timers \ {t}
  /\ UNCHANGED Rest

\* a delayed create scheduled by apply: createIcon with the link it closed over
DelayedFire ==
  /\ ~mutPending
  /\ CanCreate
  /\ \E t \in timers :
       /\ t.kind = "delayed" /\ Due(timers, t)
       /\ Commit(callCreateIcon(Prog, Or(t.link, DEFAULT_LINK)))
       /\ timers' = timers \ {t}
  /\ UNCHANGED Rest

\* the re-check a navigation signal scheduled
NavFire ==
  /\ ~mutPending
  /\ CanCreate
  /\ \E t \in timers :
       /\ t.kind = "nav" /\ Due(timers, t)
       /\ Commit(checkAndCreate(Prog).ps)
       /\ timers' = timers \ {t}
  /\ UNCHANGED Rest

\* the chrome.storage.onChanged listener
StorageChanged ==
  /\ pendingChanges # <<>>
  /\ ~mutPending
  /\ CanCreate
  /\ IF Head(pendingChanges).driveLink
     THEN \E ld \in {loadAndCreate(Prog)} :
            /\ Commit(ld.ps)
            /\ timers' = Schedule(timers, ld.timers)
            /\ pendingGets' = pendingGets + ld.gets
            /\ _currentDriveLink' = ld.current
     ELSE UNCHANGED <<doc, iconLink, sinceLast, mutPending, timers, pendingGets,
                      _currentDriveLink>>
  /\ pendingChanges' = Tail(pendingChanges)
  /\ UNCHANGED <<storage, storageAvail, observed, started, opened, events, hist,
                 optInput, savedText>>

\* the user activates the icon: the wrapper's click handler
Click ==
  /\ ~mutPending
  /\ getElementById(doc) # None
  /\ opened' = ClickTarget(getElementById(doc))
  /\ UNCHANGED <<doc, iconLink, sinceLast, _currentDriveLink, storage, storageAvail,
                 pendingGets, pendingChanges, timers, observed, mutPending, started,
                 events, hist, optInput, savedText>>

\* the debug bridge: a 'local-unifi-drive' event or a posted message
Bridge(action, link) ==
  /\ events > 0
  /\ ~mutPending
  /\ CanCreate
  /\ events' = events - 1
  /\ CASE action = "create" -> Commit(callCreateIcon(Prog, link))
       [] action = "remove" -> Commit(callRemoveIcon(Prog))
       [] action = "repair" -> Commit(callRepairExisting(Prog))
  /\ UNCHANGED <<_currentDriveLink, storage, storageAvail, pendingGets, pendingChanges,
                 timers, observed, started, opened, hist, optInput, savedText>>

\* history.pushState / replaceState / popstate: onLocationChange schedules
\* checkAndCreate
Navigate ==
  /\ started
  /\ events > 0
  /\ ~mutPending
  /\ events' = events - 1
  /\ timers' = Schedule(timers, {Timer("nav", <<>>, NAV_DELAY_MS)})
  /\ UNCHANGED <<doc, iconLink, sinceLast, _currentDriveLink, storage, storageAvail,
                 pendingGets, pendingChanges, observed, mutPending, started, opened,
                 hist, optInput, savedText>>

\* the shapes in which the host page renders its header: the anchors as
\* children of the container, or the Protect anchor nested in a cell
Headers ==
  { [sc |-> <<NET, PROT, DIV1>>, div2 |-> <<>>],
    [sc |-> <<NET, DIV2, DIV1>>, div2 |-> <<PROT>>] }

\* the host page renders its header into the body, in one DOM edit
HostRender ==
  /\ events > 0
  /\ events' = events - 1
  /\ \A e \in HostElems \ {BODY} : ~InDoc(doc, e)
  /\ \E h \in Headers : \E k \in 1..(Len(doc[BODY]) + 1) :
       /\ HostSorted(InsertAt(doc[BODY], k, SC))
       /\ doc' = [doc EXCEPT ![BODY] = InsertAt(@, k, SC), ![SC] = h.sc, ![DIV2] = h.div2]
  /\ mutPending' = (mutPending \/ Observes(doc, {BODY}))
  /\ UNCHANGED <<iconLink, observed, sinceLast, _currentDriveLink, storage, storageAvail,
                 pendingGets, pendingChanges, timers, started, opened, hist, optInput,
                 savedText>>

\* the host page removes the icon, or its header with all that is in it
HostRemove ==
  /\ events > 0
  /\ events' = events - 1
  /\ \E n \in {SC} \cup Icons : HostRemoveDoc(n)
  /\ UNCHANGED <<sinceLast, _currentDriveLink, storage, storageAvail, pendingGets,
                 pendingChanges, timers, started, opened, hist, optInput, savedText>>

\* ------------------------------------------------------- the options page
Space == " "

RECURSIVE TrimLeft(_)
TrimLeft(s) == IF s # <<>> /\ Head(s) = Space THEN TrimLeft(Tail(s)) ELSE s

RECURSIVE TrimRight(_)
TrimRight(s) ==
  IF s # <<>> /\ s[Len(s)] = Space THEN TrimRight(SubSeq(s, 1, Len(s) - 1)) ELSE s

\* a trim that strips nothing
Trim_none(s) == s

\* String.prototype.trim
Trim(s) == TrimRight(TrimLeft(s))

\* the Save button's click handler, the link field holding `text` and the
\* delay field the number d
OptSave(text, d) ==
  /\ events > 0
  /\ events' = events - 1
  /\ optInput' = text
  /\ savedText' = text
  /\ LET val == Trim(text)
         new == [driveLink |-> val, delayedCreate |-> d]
     IN /\ storage' = new
        /\ pendingChanges' =
             IF storageAvail /\ new # storage
             THEN Append(pendingChanges, [driveLink |-> val # storage.driveLink])
             ELSE pendingChanges
  /\ UNCHANGED <<doc, iconLink, sinceLast, _currentDriveLink, storageAvail, pendingGets,
                 timers, observed, mutPending, started, opened, hist>>

\* the options page is opened: load() fills the link field from the store
OptLoad ==
  /\ optInput' = Or(storage.driveLink, <<>>)
  /\ UNCHANGED <<doc, iconLink, sinceLast, _currentDriveLink, storage, storageAvail,
                 pendingGets, pendingChanges, timers, observed, mutPending, started,
                 opened, events, hist, savedText>>

\* ------------------------------------------------------ the reactive model
Doc(body0, sc0, div1kids, div2kids) ==
  [EmptyDoc EXCEPT ![HTML] = <<BODY>>, ![BODY] = body0, ![SC] = sc0,
                   ![DIV1] = div1kids, ![DIV2] = div2kids]

\* the documents a page load may start from: an empty body, a flat header,
\* a header with the Protect anchor nested in a cell, and a header beside an
\* icon left on the body
InitDocs ==
  { Doc(<<>>, <<>>, <<>>, <<>>),
    Doc(<<SC>>, <<NET, PROT, DIV1>>, <<>>, <<>>),
    Doc(<<SC>>, <<NET, DIV2, DIV1>>, <<>>, <<PROT>>),
    Doc(<<SC, "i1">>, <<NET, PROT>>, <<>>, <<>>) }

Init ==
  /\ doc \in InitDocs
  /\ iconLink = NoLinks
  /\ sinceLast = COOLDOWN_MS
  /\ _currentDriveLink = DEFAULT_LINK
  /\ storage = [driveLink |-> <<"a">>, delayedCreate |-> Unset]
  /\ storageAvail \in BOOLEAN
  /\ pendingGets = 0
  /\ pendingChanges = <<>>
  /\ timers = {}
  /\ observed = None
  /\ mutPending = FALSE
  /\ started = FALSE
  /\ opened = <<>>
  /\ events = MaxEvents
  /\ hist = NoHist
  /\ optInput = <<>>
  /\ savedText = NoSave

Next ==
  \/ Start
  \/ GetCallback
  \/ ObserverCallback
  \/ PollFire
  \/ OneShotFire
  \/ DelayedFire
  \/ NavFire
  \/ StorageChanged
  \/ \E action \in {"create", "remove", "repair"} : Bridge(action, <<"b">>)
  \/ Navigate
  \/ HostRender
  \/ HostRemove
  \/ \E text \in Links : OptSave(text, 0)
  \/ Tick

Spec == Init /\ [][Next]_vars

\* ------------------------------------------------ claims on the reactive model
\* C1: in every reachable state the document holds at most one element with
\* the icon's id, whatever the interleaving of the createIcon, repairExisting
\* and removeIcon calls of the callbacks, timers and the debug bridge.
C1_Singleton == Cardinality(IconsInDoc(doc)) <= 1

\* C1 witness: without a store start() placed the icon at once, and a bridge
\* 'create' later replaced it by a new wrapper
C1_Witness ==
  /\ started
  /\ ~storageAvail
  /\ TheIcon # None
  /\ iconLink[TheIcon] = <<"b">>
  /\ Cardinality(IconsInDoc(doc)) = 1

\* nothing is left to run: no callback queued and no timer pending but the poll
Settled ==
  /\ started
  /\ ~mutPending
  /\ pendingGets = 0
  /\ pendingChanges = <<>>
  /\ \A t \in timers : t.kind = "poll"

\* C2: whenever the icon exists and every settings change has been delivered,
\* activating it opens the link the store holds (the default when it holds
\* none).
C2_ClickTargetsCurrent ==
  (Settled /\ storageAvail /\ TheIcon # None) =>
    ClickTarget(TheIcon) = Or(storage.driveLink, DEFAULT_LINK)

\* ---------------------------------------------------- the self-healing model
\* The content script against a host page that re-renders, with no settings
\* change, navigation or bridge request.
NextHeal ==
  \/ Start
  \/ GetCallback
  \/ ObserverCallback
  \/ PollFire
  \/ OneShotFire
  \/ DelayedFire
  \/ HostRender
  \/ HostRemove
  \/ Tick

SpecHeal == Init /\ [][NextHeal]_vars

\* the script has nothing left to run: no callback queued, no timer pending
\* and the poll cleared
Halted == Settled /\ timers = {}

\* C3: an absence of the icon is always healed: with the preferred anchor in
\* the document, the script never comes to a halt while the icon is missing.
C3_AbsenceHealed == (Halted /\ InDoc(doc, PROT)) => TheIcon # None

\* C4: a misplacement is always healed: with the container and the preferred
\* anchor in the document, the script never settles, the poll (which leaves
\* an existing icon alone) being all that still runs, while the icon is not
\* the next sibling of the anchor.
C4_MisplacementHealed ==
  (Settled /\ InDoc(doc, SC) /\ contains(doc, SC, PROT) /\ TheIcon # None)
    => nextSibling(doc, PROT) = TheIcon

\* ------------------------------------------------------- the settings model
\* the texts the user types into the link field
Chars == {Space, "a"}

Texts == UNION {[1..n -> Chars] : n \in 0..MaxLen}

InitSettings ==
  /\ doc = Doc(<<SC>>, <<NET, PROT>>, <<>>, <<>>)
  /\ iconLink = NoLinks
  /\ sinceLast = COOLDOWN_MS
  /\ _currentDriveLink = DEFAULT_LINK
  /\ storage = [driveLink |-> <<>>, delayedCreate |-> Unset]
  /\ storageAvail = TRUE
  /\ pendingGets = 0
  /\ pendingChanges = <<>>
  /\ timers = {}
  /\ observed = None
  /\ mutPending = FALSE
  /\ started = FALSE
  /\ opened = <<>>
  /\ events = MaxEvents
  /\ hist = NoHist
  /\ optInput = <<>>
  /\ savedText = NoSave

NextSettings ==
  \/ Start
  \/ GetCallback
  \/ ObserverCallback
  \/ StorageChanged
  \/ PollFire
  \/ OneShotFire
  \/ DelayedFire
  \/ \E text \in Texts : OptSave(text, 0)
  \/ OptLoad
  \/ Click
  \/ Tick

SpecSettings == InitSettings /\ [][NextSettings]_vars

\* v is s without the white space at its two ends
IsStripped(v, s) ==
  /\ v # <<>> => (Head(v) # Space /\ v[Len(v)] # Space)
  /\ \E i \in 0..Len(s) :
       /\ i + Len(v) <= Len(s)
       /\ v = SubSeq(s, i + 1, i + Len(v))
       /\ \A k \in 1..Len(s) : (k <= i \/ k > i + Len(v)) => s[k] = Space

\* C10 as stated: a load after a save yields the very string that was saved,
\* in the options page and in the content script, which uses the default
\* when the saved string is empty or nothing was saved.
C10_RoundTripExact ==
  [][/\ (OptLoad /\ savedText # NoSave) => optInput' = savedText
     /\ GetCallback =>
          _currentDriveLink' = IF savedText \in {NoSave, <<>>} THEN DEFAULT_LINK
                               ELSE savedText]_vars

\* C10: a load after a save yields the saved string without the white space
\* at its ends, in the options page and in the content script; the content
\* script uses the default when that is empty or nothing was saved.
C10_RoundTripTrimmed ==
  [][/\ (OptLoad /\ savedText # NoSave) => IsStripped(optInput', savedText)
     /\ GetCallback =>
          IF savedText = NoSave \/ IsStripped(<<>>, savedText)
          THEN _currentDriveLink' = DEFAULT_LINK
          ELSE IsStripped(_currentDriveLink', savedText)]_vars

\* C10 witness: a link typed with a leading blank was saved, and both the
\* options page and the content script loaded it
C10_Witness ==
  /\ savedText = <<Space, "a">>
  /\ optInput = <<"a">>
  /\ _currentDriveLink = <<"a">>
  /\ TheIcon # None
  /\ opened = <<"a">>

\* ------------------------------------------- claims on the watcher's handlers
\* what a handler that starts no placement leaves alone
Placement == <<doc, iconLink, sinceLast, timers, pendingGets, _currentDriveLink>>

\* a settings-load-and-place sequence was started: the store was asked, or,
\* there being no store, the defaults were applied at once
LoadStarted ==
  IF storageAvail
  THEN pendingGets' = pendingGets + 1 /\ doc' = doc
  ELSE sinceLast' = 0 /\ _currentDriveLink' = DEFAULT_LINK /\ pendingGets' = pendingGets

\* C11: a mutation-observer callback that finds the icon missing from the
\* document (or not under document.body) starts the load-and-place sequence
\* unless the last createIcon that was not suppressed ran less than 1000 ms
\* earlier, when it does nothing; one that finds the icon under
\* document.body starts no placement.
C11_ObserverCooldown ==
  [][ObserverCallback =>
       IF TheIcon = None \/ ~contains(doc, BODY, TheIcon)
       THEN IF sinceLast < COOLDOWN_MS THEN UNCHANGED Placement ELSE LoadStarted
       ELSE UNCHANGED Placement]_vars

\* C11 witness: without a store, a load-and-place sequence that began after
\* start() (its delayed create is younger than the one-shot timer) put the
\* icon back
C11_Witness ==
  /\ started
  /\ ~storageAvail
  /\ TheIcon # None
  /\ \E t \in timers : t.kind = "delayed" /\ t.rem = DEFAULT_DELAY * 1000
  /\ \E u \in timers : u.kind = "oneshot" /\ u.rem < ONE_SHOT_MS

\* the interval of the persistent watcher is still installed
PollActive(ts) == \E t \in ts : t.kind = "poll"

\* C12: on a poll tick at which the preferred anchor exists and the icon does
\* not, the icon exists when the tick ends and the poll is cancelled; on any
\* other tick nothing is placed and the poll stays active.  So the poll is
\* never cancelled by a tick that leaves the icon absent.
C12_PollTick ==
  [][PollFire =>
       IF querySelector(doc, HTML, {PROT}) # None /\ TheIcon = None
       THEN TheIcon' # None /\ ~PollActive(timers')
       ELSE doc' = doc /\ PollActive(timers')]_vars

\* the re-checks that navigation signals have scheduled and that have not run
NavTimers(ts) == {t \in ts : t.kind = "nav"}

\* C13: every navigation signal (a wrapped pushState or replaceState, or a
\* popstate) schedules exactly one checkAndCreate 50 ms later, and that
\* re-check places the icon when the preferred anchor exists and the icon
\* does not.
C13_NavigationRecheck ==
  [][/\ Navigate =>
          /\ Cardinality(NavTimers(timers')) = Cardinality(NavTimers(timers)) + 1
          /\ \E t \in NavTimers(timers') \ NavTimers(timers) : t.rem = NAV_DELAY_MS
     /\ NavFire =>
          /\ Cardinality(NavTimers(timers')) = Cardinality(NavTimers(timers)) - 1
          /\ (querySelector(doc, HTML, {PROT}) # None /\ TheIcon = None)
               => TheIcon' # None]_vars

\* time has passed since start(): the get that start() issued has been
\* answered (no time passes while a get is outstanding), so a get that is
\* outstanding now was issued for a later notification
AfterStart == started /\ \A t \in timers : t.kind = "oneshot" => t.rem < ONE_SHOT_MS

\* C14: a change notification of the sync area that includes the link key
\* starts exactly one load-and-place sequence, and when that sequence has
\* run the icon is bound to the stored link; a notification that changes
\* only the delay starts none and leaves the icon as it is.
C14_LinkChangeRebinds ==
  [][/\ StorageChanged =>
          IF Head(pendingChanges).driveLink
          THEN LoadStarted
          ELSE UNCHANGED Placement
     /\ (GetCallback /\ AfterStart /\ pendingGets = 1 /\ pendingChanges = <<>>) =>
          (TheIcon' # None =>
             Or(iconLink'[TheIcon'], Or(_currentDriveLink', DEFAULT_LINK))
               = Or(storage.driveLink, DEFAULT_LINK))]_vars

\* of the strings of the model only the default link is an absolute URL: the
\* others are made of letters and spaces and have no scheme
IsAbsoluteUrl(s) == s = DEFAULT_LINK

\* C15: activating an icon whose createIcon call had a link that was absent,
\* empty or not an absolute URL opens https://example.com; the link that is
\* opened is always an absolute URL.
C15_DefaultLinkFallback ==
  [][Click =>
       /\ ~IsAbsoluteUrl(iconLink[TheIcon]) => opened' = DEFAULT_LINK
       /\ IsAbsoluteUrl(opened')]_vars

\* ----------------------------------------------- the page without a store
\* The content script on a page where chrome.storage.sync does not exist (or
\* its get raises): loadAndCreate applies the defaults at once.  The page may
\* also be a document that has no body.
InitNoStore ==
  /\ doc \in InitDocs \cup {EmptyDoc}
  /\ iconLink = NoLinks
  /\ sinceLast = COOLDOWN_MS
  /\ _currentDriveLink = DEFAULT_LINK
  /\ storage = [driveLink |-> <<>>, delayedCreate |-> Unset]
  /\ storageAvail = FALSE
  /\ pendingGets = 0
  /\ pendingChanges = <<>>
  /\ timers = {}
  /\ observed = None
  /\ mutPending = FALSE
  /\ started = FALSE
  /\ opened = <<>>
  /\ events = MaxEvents
  /\ hist = NoHist
  /\ optInput = <<>>
  /\ savedText = NoSave

NextNoStore ==
  \/ Start
  \/ ObserverCallback
  \/ PollFire
  \/ OneShotFire
  \/ DelayedFire
  \/ HostRemove
  \/ Tick

SpecNoStore == InitNoStore /\ [][NextNoStore]_vars

\* the delayed creates that loadAndCreate has scheduled
DelayedTimers(ts) == {t \in ts : t.kind = "delayed"}

\* the handler at hand calls loadAndCreate: start(), or an observer callback
\* that finds the icon missing outside the cooldown
CallsLoad ==
  \/ Start
  \/ ObserverCallback /\ TheIcon = None /\ ~(sinceLast < COOLDOWN_MS)

\* C16: when the store is absent (or get raises) loadAndCreate sets the
\* current link to the default, places the icon with that link and schedules
\* one delayed re-placement 5 s later; no exception escapes.
C16_NoStoreFallback ==
  [][(~storageAvail /\ CallsLoad) =>
       /\ _currentDriveLink' = DEFAULT_LINK
       /\ TheIcon' # None
       /\ Or(iconLink'[TheIcon'], _currentDriveLink') = DEFAULT_LINK
       /\ Cardinality(DelayedTimers(timers')) = Cardinality(DelayedTimers(timers)) + 1
       /\ \E t \in DelayedTimers(timers') \ DelayedTimers(timers) :
            t.rem = DEFAULT_DELAY * 1000 /\ t.link = DEFAULT_LINK]_vars

\* ------------------------------------------------- claims on the debounce
\* C17: a createIcon call made less than 500 ms after the last call that was
\* not suppressed changes nothing: the document (icon neither removed nor
\* replaced, no node inserted), the link the icon is bound to and the
\* debounce timestamp stay as they are.  So a remove-and-recreate pass runs
\* only when 500 ms have passed since the previous one.
C17_DebounceNoEffect ==
  [][(\E link \in PlaceLinks : PlaceCreate(link)) =>
       /\ sinceLast < DEBOUNCE_MS => (~hist'.ran /\ UNCHANGED <<doc, iconLink, sinceLast>>)
       /\ hist'.ran => ~(sinceLast < DEBOUNCE_MS)]_vars

\* C17 witness: a createIcon call was suppressed while an icon bound to a
\* link is in the document
C17_Witness ==
  /\ hist.op = "create"
  /\ ~hist.ran
  /\ sinceLast < DEBOUNCE_MS
  /\ TheIcon # None
  /\ iconLink[TheIcon] # <<>>

\* ----------------------------------------- claims on the visual host
\* the anchor createIcon places by: the preferred one when the container
\* has it, else the secondary one
TargetAnchor(d) ==
  IF AnchorIn(d, PROT) # None THEN PROT
  ELSE IF AnchorIn(d, NET) # None THEN NET ELSE None

\* the direct child of the container that holds the target anchor
VisualHost(d) == findDirectChildContaining(d, TargetAnchor(d), resolveContainer(d))

\* C18: when the target anchor is in the container, nested below a direct
\* child of it (its visual host), a createIcon that passed the debounce
\* leaves the icon the next sibling of that visual host.
C18_VisualHostPlacement ==
  (/\ Created
   /\ TargetAnchor(doc) # None
   /\ VisualHost(doc) \notin {None, TargetAnchor(doc)})
    => nextSibling(doc, VisualHost(doc)) = TheIcon

\* ------------------------------------------- claims on the container
\* the elements of the document that contain both a and b
CommonAncestors(d, a, b) ==
  {x \in Nodes : InDoc(d, x) /\ contains(d, x, a) /\ contains(d, x, b)}

\* the lowest of them: the one every other common ancestor contains
LowestCommonAncestor(d, a, b) ==
  CHOOSE x \in CommonAncestors(d, a, b) : \A y \in CommonAncestors(d, a, b) : contains(d, y, x)

\* the container as the claim describes it
ExpectedContainer(d) ==
  IF InDoc(d, SC) THEN SC
  ELSE IF ~InDoc(d, NET) \/ ~InDoc(d, PROT) THEN body(d)
  ELSE LowestCommonAncestor(d, NET, PROT)

\* C19: when the container selector matches nothing and both anchors exist,
\* the container used for placement is the lowest common ancestor of the two
\* anchors; when either anchor is missing it is document.body; when the
\* selector matches, it is the matched element wherever the anchors are.  An
\* icon that createIcon placed lies in that container.
C19_ContainerDerivation ==
  /\ resolveContainer(doc) = ExpectedContainer(doc)
  /\ (Created /\ ~hist.threw /\ TheIcon # None) => contains(doc, ExpectedContainer(doc), TheIcon)

\* C19 witness: without the explicit container the two anchors lie in
\* different cells of a common block below the body, and createIcon placed
\* the icon inside that block
C19_Witness ==
  /\ Created
  /\ ~InDoc(doc, SC)
  /\ InDoc(doc, NET)
  /\ InDoc(doc, PROT)
  /\ ExpectedContainer(doc) = DIV1
  /\ parentNode(doc, PROT) = DIV2
  /\ TheIcon # None
  /\ contains(doc, DIV1, TheIcon)

\* ------------------------------------------- claims on the one-shot timer
\* the one-shot timers of start() that have not fired
OneShots(ts) == {t \in ts : t.kind = "oneshot"}

\* C20: start() schedules the only one-shot timer of the page, 5 s ahead;
\* nothing reschedules or cancels it; it fires when its 5 s have passed, and
\* it then calls createIcon, which runs whenever the debounce lets it,
\* replacing an icon that is already placed.
C20_OneShot ==
  [][/\ Cardinality(OneShots(timers')) <= 1
     /\ OneShots(timers') # OneShots(timers) =>
          \/ /\ Start
             /\ OneShots(timers) = {}
             /\ \A t \in OneShots(timers') : t.rem = ONE_SHOT_MS
          \/ /\ Tick
             /\ Cardinality(OneShots(timers')) = Cardinality(OneShots(timers))
             /\ \A t \in OneShots(timers') : t.rem >= 0
          \/ /\ OneShotFire
             /\ OneShots(timers') = {}
             /\ \A t \in OneShots(timers) : t.rem = 0
     /\ Start => Cardinality(OneShots(timers')) = 1
     /\ OneShotFire =>
          IF sinceLast < DEBOUNCE_MS
          THEN UNCHANGED <<doc, iconLink, sinceLast>>
          ELSE sinceLast' = 0 /\ (TheIcon # None => TheIcon' # TheIcon)]_vars

\* C20 witness: the one-shot timer has fired before the delayed create that
\* is due at the same time, and its createIcon ran on a page that had an icon
C20_Witness ==
  /\ started
  /\ storageAvail
  /\ OneShots(timers) = {}
  /\ \E t \in DelayedTimers(timers) : t.rem = 0
  /\ sinceLast = 0
  /\ TheIcon # None

\* ------------------------------------------- claims on the debug bridge
\* the status of the acknowledgment the bridge emits for a request made now:
\* 'error' when the operation raised, else 'ok'
BridgeAck(action) ==
  CASE action = "create" -> IF createIcon(doc, sinceLast).threw THEN "error" ELSE "ok"
    [] action = "remove" -> IF removeIcon(Machine(doc)).threw THEN "error" ELSE "ok"
    [] action = "repair" -> IF repairExisting(Machine(doc)).threw THEN "error" ELSE "ok"
    [] OTHER             -> "ok"

\* C21: the bridge applies the operation a request names and acknowledges
\* it; an acknowledgment with status ok for 'create' means the icon is in
\* the document, for 'remove' that it is not.
C21_BridgeAck ==
  [][\A action \in {"create", "remove"} :
       (Bridge(action, <<"b">>) /\ BridgeAck(action) = "ok") =>
          /\ action = "create" => TheIcon' # None
          /\ action = "remove" => TheIcon' = None]_vars

\* ------------------------------------ claims on the observer's load rate
\* the delayed creates scheduled at this instant
FreshDelayed(ts) == {t \in DelayedTimers(ts) : t.rem = DEFAULT_DELAY * 1000}

\* C22: the loads the observer starts are rate-limited: once the get of
\* start() has been answered, never are two settings reads in flight at
\* once, and never are two delayed creates scheduled at the same instant.
C22_ObserverLoadsRateLimited ==
  AfterStart => (pendingGets <= 1 /\ Cardinality(FreshDelayed(timers)) <= 1)

\* ------------------------------------------------- claims on quiescence
\* a placement pass: a createIcon call that passed the debounce
PlacementPass == sinceLast' = 0 /\ ~(sinceLast < DEBOUNCE_MS)

\* the timers that fire once
OneTimeTimers(ts) == {t \in ts : t.kind # "poll"}

\* a one-time timer fires
OneTimeFire == OneShotFire \/ DelayedFire \/ NavFire

\* C23: when the host DOM stops changing and no settings or navigation
\* events arrive, only finitely many placement passes occur; the DOM edits
\* of createIcon and repairExisting themselves never make the observer start
\* a placement; and a timer other than the poll is gone once it has fired.
C23_Quiescence ==
  /\ <>[][~PlacementPass]_vars
  /\ [][/\ (ObserverCallback /\ events = MaxEvents) => UNCHANGED Placement
        /\ OneTimeFire =>
             Cardinality(OneTimeTimers(timers')) = Cardinality(OneTimeTimers(timers)) - 1]_vars

\* C23 witness: the host page has stopped changing the DOM, every timer has
\* fired, the poll has cleared itself after placing the icon, and a second
\* has passed since the last placement pass
C23_Witness ==
  /\ Halted
  /\ events = 0
  /\ TheIcon # None
  /\ sinceLast = COOLDOWN_MS

\* ------------------------------------------- claims on the delay setting
\* what load() of the options page writes into the delay field:
\* Number(items.delayedCreate || 5), the get defaulting the key to 5
LoadedDelay == IF StoredDelay = 0 THEN DEFAULT_DELAY ELSE StoredDelay

\* C24: after a save through the options page, the options page when it is
\* loaded again shows the delay that was saved, and the content script
\* schedules its delayed create by that delay: none when it is 0.
C24_DelayConsistent ==
  [][/\ (OptLoad /\ savedText # NoSave) => LoadedDelay = storage.delayedCreate
     /\ (GetCallback /\ savedText # NoSave) =>
          IF storage.delayedCreate = 0
          THEN DelayedTimers(timers') = DelayedTimers(timers)
          ELSE \E t \in DelayedTimers(timers') \ DelayedTimers(timers) :
                 t.rem = storage.delayedCreate * 1000]_vars

\* ------------------------------------------------- claims on the repair
\* C25: repairExisting neither creates nor removes an icon: the same icon
\* nodes are in the document before and after, bound to the same links.  It
\* changes nothing when there is no icon or no explicit container; with
\* both, the icon ends inside the container; and a second call right after
\* the first leaves the icon where it is.
C25_RepairOnlyMoves ==
  [][PlaceRepair =>
       /\ IconsInDoc(doc') = IconsInDoc(doc)
       /\ iconLink' = iconLink
       /\ (TheIcon = None \/ ~InDoc(doc, SC)) => doc' = doc
       /\ (TheIcon # None /\ InDoc(doc, SC)) => contains(doc', SC, TheIcon)
       /\ hist.op = "repair" => IconPos(doc') = IconPos(doc)]_vars

\* C25 witness: repairExisting ran on an icon, bound to a link, that already
\* sat beside the nested anchor in the container, and left it there
C25_Witness ==
  /\ hist.op = "repair"
  /\ hist.icon # None
  /\ hist.parent = DIV2
  /\ parentNode(doc, PROT) = DIV2
  /\ contains(doc, SC, DIV2)
  /\ nextSibling(doc, PROT) = hist.icon
  /\ iconLink[hist.icon] # <<>>

=============================================================================
